---- MODULE Spec2Model ----
(***************************************************************************)
(* TeraProtocol (src/lib/protocol/index.js): the definition registry, its  *)
(* loaders, the identifier resolver and the codec invoker with its scratch *)
(* buffers, as a state machine.                                            *)
(***************************************************************************)
EXTENDS Integers, Sequences, FiniteSets, TLC

VARIABLES
    majorPatchVersion,          \* this.majorPatchVersion
    platform,                   \* this.platform
    protocolMap,                \* this.protocolMap: [name: name -> code, code: code -> name]
    messages,                   \* this.messages: name -> version -> definition object
    deprecationData,            \* this.deprecationData (undefined until a bundle is loaded)
    lowestDefaultDefVersions,   \* this.lowestDefaultDefVersions (undefined likewise)
    defaultDefinitions,         \* this.defaultDefinitions (undefined likewise)
    loaded,                     \* this.loaded
    readBuffer,                 \* this.readBuffer, 0x10000 bytes
    writeBuffer,                \* this.writeBuffer, 0x10000 bytes
    handles,                    \* values the caller holds: resolved identifiers, returned buffers
    generation,                 \* what the loaders and callers handed to addDefinition since messages.clear()
    last                        \* the last call and its outcome

vars == <<majorPatchVersion, platform, protocolMap, messages, deprecationData,
          lowestDefaultDefVersions, defaultDefinitions, loaded, readBuffer,
          writeBuffer, handles, generation, last>>

registryVars == <<messages, deprecationData, lowestDefaultDefVersions,
                  defaultDefinitions, loaded>>

codecVars == <<readBuffer, writeBuffer>>

(***************************************************************************)
(* Bounds of the model.                                                    *)
(***************************************************************************)
MaxVersion == 2
MaxPatch == 2
MaxFiles == 2
MaxKept == 1

Versions == 0..MaxVersion
Names == {"A", "B"}

(***************************************************************************)
(* JavaScript values.                                                      *)
(***************************************************************************)
\* undefined where a number is expected (a missing map entry, a regexp group
\* that did not take part, an unassigned let)
Undefined == -1
\* Math.max() of no arguments
NegInfinity == -2
\* the default of resolveIdentifier's definitionVersion, '*'
Star == -3

\* ToBoolean of a number or undefined: 0 and undefined are falsy, -Infinity is not
Truthy(n) == n # Undefined /\ n # 0

\* a < b on numbers: every comparison with undefined is false
Less(a, b) ==
    IF a = Undefined \/ b = Undefined THEN FALSE
    ELSE IF b = NegInfinity THEN FALSE
    ELSE IF a = NegInfinity THEN TRUE
    ELSE a < b

\* new Map()
EmptyMap == [v \in {} |-> 0]

PLATFORMS == {"pc", "console", "classic"}
\* parsedName[4] when the filename carries no platform group
NoPlatform == "none"

(***************************************************************************)
(* Files and definition objects.                                           *)
(*                                                                         *)
(* A file is its name's parts and what its content does: valid is whether  *)
(* the filename matches the naming convention, ok whether the definition   *)
(* it yields has its three routines or compiles to them.  A definition     *)
(* object is identified by where it came from.                             *)
(***************************************************************************)
File(valid, name, version, plat, ok) ==
    [valid |-> valid, name |-> name, version |-> version, platform |-> plat, ok |-> ok]

\* parseDefinitionFilename: null, or {name, version, platform}
parseDefinitionFilename(file) ==
    IF ~file.valid
    THEN [null |-> TRUE, name |-> "", version |-> Undefined, platform |-> NoPlatform]
    ELSE [null |-> FALSE, name |-> file.name, version |-> file.version,
          platform |-> file.platform]

\* the object requireStr / require / defParser yields for a file
Definition(origin, file) ==
    [id |-> [origin |-> origin, name |-> file.name, version |-> file.version,
             platform |-> file.platform],
     ok |-> file.ok]

(***************************************************************************)
(* _assignDeprecationFlags(name, version, definition): the flags it sets   *)
(* on the definition object, and whether reading this.deprecationData      *)
(* threw (it is undefined until loadDefaultBundle assigns it).             *)
(***************************************************************************)
isDeprecated(data, major) ==
    /\ (~Truthy(data.min) \/ data.min > major)
    /\ (~Truthy(data.max) \/ data.max < major)

assignDeprecationFlags(dep, major, name, version) ==
    IF ~dep.defined
    THEN [threw |-> TRUE, readable |-> TRUE, writeable |-> TRUE]
    ELSE IF /\ <<name, version>> \in DOMAIN dep.of
            /\ isDeprecated(dep.of[<<name, version>>], major)
    THEN [threw |-> FALSE,
          readable |-> (dep.of[<<name, version>>].readable = "true"),
          writeable |-> FALSE]
    ELSE [threw |-> FALSE, readable |-> TRUE, writeable |-> TRUE]

\* the flags live on the definition object: every slot that holds the object sees them
setFlags(msgs, id, flags) ==
    [n \in DOMAIN msgs |->
        [v \in DOMAIN msgs[n] |->
            IF msgs[n][v].def = id
            THEN [def |-> id, readable |-> flags.readable, writeable |-> flags.writeable]
            ELSE msgs[n][v]]]

\* Map.prototype.set on the version map of a name
setVersion(msgs, name, version, entry) ==
    [n \in DOMAIN msgs |->
        IF n = name
        THEN [v \in DOMAIN msgs[n] \cup {version} |->
                 IF v = version THEN entry ELSE msgs[n][v]]
        ELSE msgs[n]]

\* !this.messages.has(name) => this.messages.set(name, new Map())
ensureName(msgs, name) ==
    IF name \in DOMAIN msgs THEN msgs
    ELSE [n \in DOMAIN msgs \cup {name} |-> IF n = name THEN EmptyMap ELSE msgs[n]]

(***************************************************************************)
(* addDefinition(name, version, definition, overwrite) on a registry msgs: *)
(* the registry it leaves, whether it threw, and whether it stored the     *)
(* definition.                                                             *)
(***************************************************************************)
\* mayStore without the test of the slot: every call stores
mayStore_Always(overwrite, versions, version) == TRUE

\* overwrite || !this.messages.get(name).get(version)
mayStore(overwrite, versions, version) ==
    overwrite \/ version \notin DOMAIN versions

addDefinition(msgs, dep, major, name, version, definition, overwrite) ==
    IF ~definition.ok
    THEN \* compile threw: logged, return
         [messages |-> msgs, threw |-> FALSE, stored |-> FALSE]
    ELSE LET withName == ensureName(msgs, name)
             flags == assignDeprecationFlags(dep, major, name, version)
             marked == setFlags(withName, definition.id, flags)
         IN  IF mayStore(overwrite, withName[name], version)
             THEN IF flags.threw
                  THEN [messages |-> marked, threw |-> TRUE, stored |-> FALSE]
                  ELSE [messages |->
                            setVersion(marked, name, version,
                                [def |-> definition.id, readable |-> flags.readable,
                                 writeable |-> flags.writeable]),
                        threw |-> FALSE, stored |-> TRUE]
             ELSE [messages |-> withName, threw |-> FALSE, stored |-> FALSE]

(***************************************************************************)
(* loadDefaultBundle(data): data.protocol is the bundle's files in key     *)
(* order, data.deprecated the deprecation table.                           *)
(***************************************************************************)
Min(a, b) == IF a < b THEN a ELSE b

\* the forEach over defaultDefData; def.name of a null entry throws
RECURSIVE lowestVersions(_, _, _)
lowestVersions(defaultDefData, i, lowest) ==
    IF i > Len(defaultDefData) THEN [of |-> lowest, threw |-> FALSE]
    ELSE IF defaultDefData[i].null THEN [of |-> lowest, threw |-> TRUE]
    ELSE LET def == defaultDefData[i]
         IN  lowestVersions(defaultDefData, i + 1,
                 [lowest EXCEPT ![def.name] =
                     IF Truthy(lowest[def.name])
                     THEN Min(lowest[def.name], def.version)
                     ELSE def.version])

\* what a loader hands to addDefinition: the definition and overwrite = !!parsedName.platform
offer(origin, file) ==
    [name |-> file.name, version |-> file.version,
     tagged |-> (file.platform # NoPlatform), origin |-> origin, ok |-> file.ok]

\* overwriteFor without the platform tag: the loaders never ask to overwrite
overwriteFor_Never(parsedName) == FALSE

\* the overwrite argument of the loaders: !!parsedName.platform
overwriteFor(parsedName) == parsedName.platform # NoPlatform

\* definition && (!parsedName.platform || parsedName.platform === this.platform)
platformMatches(parsedName, plat) ==
    parsedName.platform = NoPlatform \/ parsedName.platform = plat

\* the loop over data.protocol
RECURSIVE registerBundle(_, _, _, _, _, _)
registerBundle(files, i, acc, dep, major, plat) ==
    IF i > Len(files) \/ acc.threw THEN acc
    ELSE LET parsedName == parseDefinitionFilename(files[i])
         IN  IF parsedName.null
             THEN \* parsedName.type of null
                  [acc EXCEPT !.threw = TRUE]
             ELSE IF platformMatches(parsedName, plat)
             THEN LET r == addDefinition(acc.messages, dep, major, parsedName.name,
                               parsedName.version, Definition("bundle", files[i]),
                               overwriteFor(parsedName))
                  IN  registerBundle(files, i + 1,
                          [messages |-> r.messages, threw |-> r.threw,
                           offered |-> IF r.threw THEN acc.offered
                                       ELSE acc.offered \cup {offer("bundle", files[i])}],
                          dep, major, plat)
             ELSE registerBundle(files, i + 1, acc, dep, major, plat)

NoLowest == [n \in Names |-> Undefined]

\* loadDefaultBundle without this.messages.clear()
loadDefaultBundle_NoClear(self, major, plat, data) ==
    LET defaultDefData ==
            [i \in 1..Len(data.protocol) |-> parseDefinitionFilename(data.protocol[i])]
        lowest == lowestVersions(defaultDefData, 1, NoLowest)
    IN  IF lowest.threw
        THEN [self |-> [self EXCEPT !.lowestDefaultDefVersions =
                            [defined |-> TRUE, of |-> lowest.of]],
              threw |-> TRUE, cleared |-> FALSE, offered |-> {}]
        ELSE LET dep == [defined |-> TRUE, of |-> data.deprecated]
                 r == registerBundle(data.protocol, 1,
                          [messages |-> self.messages, threw |-> FALSE, offered |-> {}],
                          dep, major, plat)
             IN  [self |-> [messages |-> r.messages,
                            deprecationData |-> dep,
                            lowestDefaultDefVersions |-> [defined |-> TRUE, of |-> lowest.of],
                            defaultDefinitions |->
                                [defined |-> TRUE,
                                 of |-> {<<defaultDefData[i].name, defaultDefData[i].version>> :
                                            i \in 1..Len(defaultDefData)}],
                            loaded |-> IF r.threw THEN self.loaded ELSE TRUE],
                  threw |-> r.threw, cleared |-> TRUE, offered |-> r.offered]

loadDefaultBundle(self, major, plat, data) ==
    LET defaultDefData ==
            [i \in 1..Len(data.protocol) |-> parseDefinitionFilename(data.protocol[i])]
        lowest == lowestVersions(defaultDefData, 1, NoLowest)
    IN  IF lowest.threw
        THEN [self |-> [self EXCEPT !.lowestDefaultDefVersions =
                            [defined |-> TRUE, of |-> lowest.of]],
              threw |-> TRUE, cleared |-> FALSE, offered |-> {}]
        ELSE LET dep == [defined |-> TRUE, of |-> data.deprecated]
                 r == registerBundle(data.protocol, 1,
                          [messages |-> <<>>, threw |-> FALSE, offered |-> {}],
                          dep, major, plat)
             IN  [self |-> [messages |-> r.messages,
                            deprecationData |-> dep,
                            lowestDefaultDefVersions |-> [defined |-> TRUE, of |-> lowest.of],
                            defaultDefinitions |->
                                [defined |-> TRUE,
                                 of |-> {<<defaultDefData[i].name, defaultDefData[i].version>> :
                                            i \in 1..Len(defaultDefData)}],
                            loaded |-> IF r.threw THEN self.loaded ELSE TRUE],
                  threw |-> r.threw, cleared |-> TRUE, offered |-> r.offered]

(***************************************************************************)
(* loadCustomDefinitions(defPath): defFiles is the directory's listing.    *)
(***************************************************************************)
\* parsedName.version !== 0 && lowest[name] && parsedName.version < lowest[name];
\* reading a property of an undefined lowestDefaultDefVersions throws
staleCheck(parsedName, lowest) ==
    IF parsedName.version = 0 THEN [stale |-> FALSE, threw |-> FALSE]
    ELSE IF ~lowest.defined THEN [stale |-> FALSE, threw |-> TRUE]
    ELSE [stale |-> /\ Truthy(lowest.of[parsedName.name])
                    /\ parsedName.version < lowest.of[parsedName.name],
          threw |-> FALSE]

RECURSIVE registerCustom(_, _, _, _, _, _, _)
registerCustom(defFiles, i, acc, dep, major, plat, lowest) ==
    IF i > Len(defFiles) \/ acc.threw THEN acc
    ELSE LET parsedName == parseDefinitionFilename(defFiles[i])
             check == staleCheck(parsedName, lowest)
         IN  IF parsedName.null
             THEN registerCustom(defFiles, i + 1, acc, dep, major, plat, lowest)
             ELSE IF check.threw THEN [acc EXCEPT !.threw = TRUE]
             ELSE IF check.stale
             THEN registerCustom(defFiles, i + 1,
                      [acc EXCEPT !.skipped = @ \cup {offer("custom", defFiles[i])}],
                      dep, major, plat, lowest)
             ELSE IF platformMatches(parsedName, plat)
             THEN LET r == addDefinition(acc.messages, dep, major, parsedName.name,
                               parsedName.version, Definition("custom", defFiles[i]),
                               overwriteFor(parsedName))
                  IN  registerCustom(defFiles, i + 1,
                          [messages |-> r.messages, threw |-> r.threw,
                           offered |-> IF r.threw THEN acc.offered
                                       ELSE acc.offered \cup {offer("custom", defFiles[i])},
                           skipped |-> acc.skipped],
                          dep, major, plat, lowest)
             ELSE registerCustom(defFiles, i + 1, acc, dep, major, plat, lowest)

loadCustomDefinitions(self, major, plat, defFiles) ==
    LET r == registerCustom(defFiles, 1,
                 [messages |-> self.messages, threw |-> FALSE, offered |-> {},
                  skipped |-> {}],
                 self.deprecationData, major, plat, self.lowestDefaultDefVersions)
    IN  [self |-> [self EXCEPT !.messages = r.messages],
         threw |-> r.threw, offered |-> r.offered, skipped |-> r.skipped]

(***************************************************************************)
(* resolveIdentifier(identifier, definitionVersion = '*').  An identifier  *)
(* is [type, value] with type the result of typeof.  The thrown errors are *)
(* named after their messages: "code not known" / "mapping not found" /    *)
(* "no definition found" are NotFound, "is outdated" is Outdated.          *)
(***************************************************************************)
RECURSIVE MaxOf(_)
MaxOf(S) ==
    IF S = {} THEN NegInfinity
    ELSE LET x == CHOOSE y \in S : TRUE
             m == MaxOf(S \ {x})
         IN  IF m = NegInfinity \/ x > m THEN x ELSE m

\* latestVersion with the lowest key in place of the greatest
latestVersion_Lowest(versions) ==
    IF DOMAIN versions = {} THEN NegInfinity
    ELSE CHOOSE v \in DOMAIN versions : \A w \in DOMAIN versions : v <= w

\* Math.max(...versions.keys())
latestVersion(versions) == MaxOf(DOMAIN versions)

NoDefinition == [def |-> [origin |-> "none", name |-> "", version |-> Undefined,
                          platform |-> NoPlatform],
                 readable |-> FALSE, writeable |-> FALSE]

Failure(status, name, code, version, latest) ==
    [status |-> status, name |-> name, code |-> code, version |-> version,
     latest_version |-> latest, definition |-> NoDefinition]

\* missingDefinition with the comparison the other way round
missingDefinition_Reversed(version, latest_version) ==
    IF Truthy(latest_version) /\ Truthy(version) /\ Less(latest_version, version)
    THEN "Outdated"
    ELSE "NotFound"

\* !definition: which of the two errors is thrown
missingDefinition(version, latest_version) ==
    IF Truthy(latest_version) /\ Truthy(version) /\ Less(version, latest_version)
    THEN "Outdated"
    ELSE "NotFound"

\* resolveDefinition refusing every version below the latest one as outdated
resolveDefinition_LatestOnly(msgs, name, code, definitionVersion) ==
    LET known == name \in DOMAIN msgs
        latest_version == IF known THEN latestVersion(msgs[name]) ELSE Undefined
        version == IF ~known THEN Undefined
                   ELSE IF definitionVersion = Star THEN latest_version
                   ELSE definitionVersion
        found == known /\ version \in DOMAIN msgs[name]
    IN  IF Truthy(latest_version) /\ Truthy(version) /\ Less(version, latest_version)
        THEN Failure("Outdated", name, code, version, latest_version)
        ELSE IF found
        THEN [status |-> "ok", name |-> name, code |-> code, version |-> version,
              latest_version |-> latest_version, definition |-> msgs[name][version]]
        ELSE Failure(missingDefinition(version, latest_version), name, code, version,
                     latest_version)

resolveDefinition(msgs, name, code, definitionVersion) ==
    LET known == name \in DOMAIN msgs
        latest_version == IF known THEN latestVersion(msgs[name]) ELSE Undefined
        version == IF ~known THEN Undefined
                   ELSE IF definitionVersion = Star THEN latest_version
                   ELSE definitionVersion
        found == known /\ version \in DOMAIN msgs[name]
    IN  IF found
        THEN [status |-> "ok", name |-> name, code |-> code, version |-> version,
              latest_version |-> latest_version, definition |-> msgs[name][version]]
        ELSE Failure(missingDefinition(version, latest_version), name, code, version,
                     latest_version)

\* resolveIdentifier taking a string for the name without asking the protocol map
resolveIdentifier_Unmapped(msgs, map, identifier, definitionVersion) ==
    IF identifier.type = "string"
    THEN resolveDefinition(msgs, identifier.value,
             IF identifier.value \in DOMAIN map.name THEN map.name[identifier.value]
             ELSE Undefined,
             definitionVersion)
    ELSE IF identifier.type = "number"
    THEN IF identifier.value \notin DOMAIN map.code
         THEN Failure("NotFound", "", identifier.value, Undefined, Undefined)
         ELSE resolveDefinition(msgs, map.code[identifier.value], identifier.value,
                                definitionVersion)
    ELSE Failure("TypeError", "", Undefined, Undefined, Undefined)

resolveIdentifier(msgs, map, identifier, definitionVersion) ==
    IF identifier.type = "string"
    THEN IF identifier.value \notin DOMAIN map.name
         THEN Failure("NotFound", identifier.value, Undefined, Undefined, Undefined)
         ELSE resolveDefinition(msgs, identifier.value, map.name[identifier.value],
                                definitionVersion)
    ELSE IF identifier.type = "number"
    THEN IF identifier.value \notin DOMAIN map.code
         THEN Failure("NotFound", "", identifier.value, Undefined, Undefined)
         ELSE resolveDefinition(msgs, map.code[identifier.value], identifier.value,
                                definitionVersion)
    ELSE Failure("TypeError", "", Undefined, Undefined, Undefined)

(***************************************************************************)
(* Byte buffers.  A buffer's contents are kept run-length encoded: a       *)
(* sequence of runs [n, b], n > 0 copies of byte b, neighbouring runs of   *)
(* different bytes, so that equal contents are equal values.               *)
(***************************************************************************)
\* 0x10000
ScratchSize == 65536

Run(n, b) == [n |-> n, b |-> b]

RECURSIVE byteLength(_)
byteLength(bytes) ==
    IF bytes = <<>> THEN 0 ELSE Head(bytes).n + byteLength(Tail(bytes))

RECURSIVE normal(_)
normal(bytes) ==
    IF bytes = <<>> THEN <<>>
    ELSE IF Head(bytes).n = 0 THEN normal(Tail(bytes))
    ELSE LET rest == normal(Tail(bytes))
         IN  IF rest # <<>> /\ Head(rest).b = Head(bytes).b
             THEN <<Run(Head(bytes).n + Head(rest).n, Head(bytes).b)>> \o Tail(rest)
             ELSE <<Head(bytes)>> \o rest

\* bytes [0, k)
RECURSIVE take(_, _)
take(bytes, k) ==
    IF k <= 0 \/ bytes = <<>> THEN <<>>
    ELSE IF Head(bytes).n <= k
    THEN <<Head(bytes)>> \o take(Tail(bytes), k - Head(bytes).n)
    ELSE <<Run(k, Head(bytes).b)>>

\* bytes [k, end)
RECURSIVE drop(_, _)
drop(bytes, k) ==
    IF k <= 0 \/ bytes = <<>> THEN bytes
    ELSE IF Head(bytes).n <= k THEN drop(Tail(bytes), k - Head(bytes).n)
    ELSE <<Run(Head(bytes).n - k, Head(bytes).b)>> \o Tail(bytes)

RECURSIVE byteAt(_, _)
byteAt(bytes, i) ==
    IF i < Head(bytes).n THEN Head(bytes).b ELSE byteAt(Tail(bytes), i - Head(bytes).n)

\* the bytes of target after source's bytes were stored at offset
store(target, offset, source) ==
    normal(take(target, offset) \o source \o drop(target, offset + byteLength(source)))

\* source.copy(target, 0, 0, sourceEnd): the bytes of target afterwards
bufferCopy(source, target, sourceEnd) ==
    LET k == Min(Min(sourceEnd, byteLength(source)), byteLength(target))
    IN  store(target, 0, take(source, k))

\* setUint16 without the littleEndian argument: the high byte comes first
setUint16_BigEndian(bytes, byteOffset, value) ==
    store(bytes, byteOffset,
          normal(<<Run(1, (value \div 256) % 256), Run(1, value % 256)>>))

\* DataView.prototype.setUint16(byteOffset, value, littleEndian = true)
setUint16(bytes, byteOffset, value) ==
    store(bytes, byteOffset,
          normal(<<Run(1, value % 256), Run(1, (value \div 256) % 256)>>))

\* DataView.prototype.getUint16(byteOffset, littleEndian = true)
getUint16(bytes, byteOffset) ==
    byteAt(bytes, byteOffset) + 256 * byteAt(bytes, byteOffset + 1)

\* readViews with one view of the whole read buffer for every length
readViews_Whole(buffer, i) == buffer

\* this.readViews[i]: the DataView over the first i bytes of the read buffer
readViews(buffer, i) == take(buffer, i)

(***************************************************************************)
(* A Buffer the caller holds: its own memory (bytes), or memory shared     *)
(* with a scratch region (the first length bytes of it).                   *)
(***************************************************************************)
OwnBuffer(bytes) == [backing |-> "own", length |-> byteLength(bytes), bytes |-> bytes]

contents(buffer, scratch) ==
    IF buffer.backing = "own" THEN buffer.bytes ELSE take(scratch, buffer.length)

(***************************************************************************)
(* The compiled routines of a definition are the compiler's.  They are     *)
(* modelled by their contract: data is the payload's bytes; the writer     *)
(* stores them from offset 4 and returns the payload's end offset; the     *)
(* reader returns the bytes from offset 4 to the end of its view; the      *)
(* cloner returns a copy.                                                  *)
(***************************************************************************)
HeaderSize == 4

writer(view, data) ==
    [view |-> store(view, HeaderSize, data), length |-> HeaderSize + byteLength(data)]

reader(view) == drop(view, HeaderSize)

cloner(data) == data

(***************************************************************************)
(* write(resolvedIdentifier, data): the write buffer afterwards and the    *)
(* Buffer returned.  allocUnsafe's memory is uninitialized: garbage is     *)
(* what it held.                                                           *)
(***************************************************************************)
allocUnsafe(length, garbage) == normal(<<Run(length, garbage)>>)

\* copyOut as this.writeBuffer.slice(0, length): a Buffer over the scratch memory
copyOut_View(scratch, length, garbage) ==
    [backing |-> "writeBuffer", length |-> length, bytes |-> <<>>]

\* let result = Buffer.allocUnsafe(length); this.writeBuffer.copy(result, 0, 0, length)
copyOut(scratch, length, garbage) ==
    OwnBuffer(bufferCopy(scratch, allocUnsafe(length, garbage), length))

write(scratch, resolvedIdentifier, data, garbage) ==
    IF ~resolvedIdentifier.definition.writeable
    THEN [status |-> "Deprecated", writeBuffer |-> scratch, length |-> 0,
          result |-> OwnBuffer(<<>>)]
    ELSE LET w == writer(scratch, data)
             withLength == setUint16(w.view, 0, w.length)
             withCode == setUint16(withLength, 2, resolvedIdentifier.code)
         IN  [status |-> "ok", writeBuffer |-> withCode, length |-> w.length,
              result |-> copyOut(withCode, w.length, garbage)]

(***************************************************************************)
(* parse(resolvedIdentifier, buffer): the read buffer afterwards and the   *)
(* object the reader returned.                                             *)
(***************************************************************************)
\* parse with the copy into the read buffer ahead of the readable test
parse_CopyFirst(scratch, resolvedIdentifier, bytes) ==
    LET copied == bufferCopy(bytes, scratch, byteLength(bytes))
    IN  IF ~resolvedIdentifier.definition.readable
        THEN [status |-> "Deprecated", readBuffer |-> copied, result |-> <<>>]
        ELSE [status |-> "ok", readBuffer |-> copied,
              result |-> reader(readViews(copied, byteLength(bytes)))]

parse(scratch, resolvedIdentifier, bytes) ==
    IF ~resolvedIdentifier.definition.readable
    THEN [status |-> "Deprecated", readBuffer |-> scratch, result |-> <<>>]
    ELSE LET copied == bufferCopy(bytes, scratch, byteLength(bytes))
         IN  [status |-> "ok", readBuffer |-> copied,
              result |-> reader(readViews(copied, byteLength(bytes)))]

(***************************************************************************)
(* The engine.                                                             *)
(***************************************************************************)
self == [messages |-> messages, deprecationData |-> deprecationData,
         lowestDefaultDefVersions |-> lowestDefaultDefVersions,
         defaultDefinitions |-> defaultDefinitions, loaded |-> loaded]

become(s) ==
    /\ messages' = s.messages
    /\ deprecationData' = s.deprecationData
    /\ lowestDefaultDefVersions' = s.lowestDefaultDefVersions
    /\ defaultDefinitions' = s.defaultDefinitions
    /\ loaded' = s.loaded

NoHandle == Failure("none", "", Undefined, Undefined, Undefined)

\* the bundle last handed to loadDefaultBundle: its entries whose filenames
\* parse, and whether the call completed
NoBundle == [complete |-> FALSE, entries |-> {}]

bundleOf(data, threw) ==
    [complete |-> ~threw,
     entries |-> {<<data.protocol[i].name, data.protocol[i].version>> :
                     i \in {j \in 1..Len(data.protocol) : data.protocol[j].valid}}]

NoGeneration == [tagged |-> {}, agnostic |-> {}, bundle |-> NoBundle]

\* the slots for which the loaders handed addDefinition a definition that compiles
slotsOffered(offered, tagged) ==
    {<<o.name, o.version>> : o \in {x \in offered : x.ok /\ x.tagged = tagged}}

recordOffers(gen, offered) ==
    [gen EXCEPT !.tagged = @ \cup slotsOffered(offered, TRUE),
                !.agnostic = @ \cup slotsOffered(offered, FALSE)]

\* the opcodes of the protocol map handed to the constructor
Opcodes == {1, 43981}

\* the contents of uninitialized memory
Garbage == {0, 238}

\* constructor(region, majorPatchVersion, minorPatchVersion, protocolMap, platform = 'pc')
\* with a protocol map that knows the message A by opcode code
constructor(major, code, plat, readGarbage, writeGarbage) ==
    /\ plat \in PLATFORMS
    /\ majorPatchVersion = major
    /\ platform = plat
    /\ protocolMap = [name |-> [n \in {"A"} |-> code], code |-> [c \in {code} |-> "A"]]
    /\ messages = <<>>
    /\ deprecationData = [defined |-> FALSE, of |-> <<>>]
    /\ lowestDefaultDefVersions = [defined |-> FALSE, of |-> NoLowest]
    /\ defaultDefinitions = [defined |-> FALSE, of |-> {}]
    /\ loaded = FALSE
    /\ readBuffer = allocUnsafe(ScratchSize, readGarbage)
    /\ writeBuffer = allocUnsafe(ScratchSize, writeGarbage)
    /\ handles = [resolved |-> NoHandle, buffers |-> <<>>]
    /\ generation = NoGeneration
    /\ last = [op |-> "constructor"]

constructorVars == <<majorPatchVersion, platform, protocolMap>>

\* where the definitions a registry holds came from
originsHeld(msgs) ==
    UNION {{msgs[n][v].def.origin : v \in DOMAIN msgs[n]} : n \in DOMAIN msgs}

LoadDefaultBundle(data) ==
    LET r == loadDefaultBundle(self, majorPatchVersion, platform, data)
    IN  /\ become(r.self)
        /\ generation' = [(IF r.cleared THEN recordOffers(NoGeneration, r.offered)
                           ELSE generation)
                             EXCEPT !.bundle = bundleOf(data, r.threw)]
        /\ last' = [op |-> "loadDefaultBundle", threw |-> r.threw,
                    protocol |-> IF r.threw THEN <<>> ELSE data.protocol,
                    held |-> originsHeld(messages)]
        /\ UNCHANGED <<constructorVars, codecVars, handles>>

\* the (name, version) of the files of a listing whose names parse and whose
\* platform is none or the engine's
listedSlots(defFiles, plat) ==
    {<<defFiles[i].name, defFiles[i].version>> :
        i \in {j \in 1..Len(defFiles) :
                  /\ ~parseDefinitionFilename(defFiles[j]).null
                  /\ platformMatches(parseDefinitionFilename(defFiles[j]), plat)}}

LoadCustomDefinitions(defFiles) ==
    LET r == loadCustomDefinitions(self, majorPatchVersion, platform, defFiles)
    IN  /\ become(r.self)
        /\ generation' = recordOffers(generation, r.offered)
        /\ last' = [op |-> "loadCustomDefinitions", threw |-> r.threw,
                    listed |-> listedSlots(defFiles, platform),
                    skipped |-> {<<o.name, o.version>> : o \in r.skipped},
                    offered |-> {<<o.name, o.version>> : o \in r.offered}]
        /\ UNCHANGED <<constructorVars, codecVars, handles>>

\* load(dataPath): data.json is the bundle, definitions/ the custom directory
Load(data, defFiles) ==
    LET b == loadDefaultBundle(self, majorPatchVersion, platform, data)
        c == loadCustomDefinitions(b.self, majorPatchVersion, platform, defFiles)
        gen == [(IF b.cleared THEN recordOffers(NoGeneration, b.offered)
                 ELSE generation)
                    EXCEPT !.bundle = bundleOf(data, b.threw)]
    IN  /\ become(IF b.threw THEN b.self ELSE c.self)
        /\ generation' = IF b.threw THEN gen ELSE recordOffers(gen, c.offered)
        /\ last' = [op |-> "load", threw |-> (b.threw \/ c.threw)]
        /\ UNCHANGED <<constructorVars, codecVars, handles>>

\* a definition object of the caller's
Object(k, ok) ==
    [id |-> [origin |-> "caller", name |-> "", version |-> k, platform |-> NoPlatform],
     ok |-> ok]

\* what the slot held before a call
before(msgs, name, version) ==
    IF name \in DOMAIN msgs /\ version \in DOMAIN msgs[name]
    THEN msgs[name][version] ELSE NoDefinition

AddDefinition(name, version, definition, overwrite) ==
    LET r == addDefinition(messages, deprecationData, majorPatchVersion, name, version,
                           definition, overwrite)
    IN  /\ messages' = r.messages
        /\ last' = [op |-> "addDefinition", name |-> name, version |-> version,
                    definition |-> definition, overwrite |-> overwrite,
                    before |-> before(messages, name, version),
                    threw |-> r.threw, stored |-> r.stored]
        /\ handles' = IF r.stored /\ handles.resolved.definition.def = definition.id
                      THEN [handles EXCEPT !.resolved.definition =
                                r.messages[name][version]]
                      ELSE handles
        /\ UNCHANGED <<constructorVars, codecVars, deprecationData, generation,
                       lowestDefaultDefVersions, defaultDefinitions, loaded>>

\* ResolveIdentifier creating the version map of a name it does not find
ResolveIdentifier_Caching(identifier, definitionVersion, kept) ==
    LET r == resolveIdentifier(messages, protocolMap, identifier, definitionVersion)
    IN  /\ last' = [op |-> "resolveIdentifier", identifier |-> identifier,
                    definitionVersion |-> definitionVersion, result |-> r]
        /\ handles' = IF kept /\ r.status = "ok" THEN [handles EXCEPT !.resolved = r]
                      ELSE handles
        /\ messages' = IF r.name # "" THEN ensureName(messages, r.name) ELSE messages
        /\ UNCHANGED <<constructorVars, deprecationData, lowestDefaultDefVersions,
                       defaultDefinitions, loaded, codecVars, generation>>

\* resolveIdentifier(identifier, definitionVersion); kept says whether the caller
\* keeps the value returned for later parse / write / clone calls
ResolveIdentifier(identifier, definitionVersion, kept) ==
    LET r == resolveIdentifier(messages, protocolMap, identifier, definitionVersion)
    IN  /\ last' = [op |-> "resolveIdentifier", identifier |-> identifier,
                    definitionVersion |-> definitionVersion, result |-> r]
        /\ handles' = IF kept /\ r.status = "ok" THEN [handles EXCEPT !.resolved = r]
                      ELSE handles
        /\ UNCHANGED <<constructorVars, registryVars, codecVars, generation>>

\* write(handles.resolved, data); kept says whether the caller keeps the Buffer
\* returned (it keeps at most MaxKept of them)
Write(data, garbage, kept) ==
    LET r == write(writeBuffer, handles.resolved, data, garbage)
    IN  /\ handles.resolved.status = "ok"
        /\ writeBuffer' = r.writeBuffer
        /\ kept => Len(handles.buffers) < MaxKept
        /\ handles' = IF kept /\ r.status = "ok"
                      THEN [handles EXCEPT !.buffers =
                                Append(@, [buffer |-> r.result,
                                           returned |-> contents(r.result, r.writeBuffer),
                                           data |-> data])]
                      ELSE handles
        /\ last' = [op |-> "write", resolved |-> handles.resolved, data |-> data,
                    status |-> r.status, length |-> r.length, result |-> r.result]
        /\ UNCHANGED <<constructorVars, registryVars, readBuffer, generation>>

\* parse(handles.resolved, buffer)
Parse(buffer) ==
    LET r == parse(readBuffer, handles.resolved, contents(buffer, writeBuffer))
    IN  /\ handles.resolved.status = "ok"
        /\ readBuffer' = r.readBuffer
        /\ last' = [op |-> "parse", resolved |-> handles.resolved, buffer |-> buffer,
                    status |-> r.status, result |-> r.result]
        /\ UNCHANGED <<constructorVars, registryVars, writeBuffer, handles, generation>>

\* clone(handles.resolved, data)
Clone(data) ==
    /\ handles.resolved.status = "ok"
    /\ last' = [op |-> "clone", resolved |-> handles.resolved, data |-> data,
                result |-> cloner(data)]
    /\ UNCHANGED <<constructorVars, registryVars, codecVars, handles, generation>>

(***************************************************************************)
(* The inputs.                                                             *)
(***************************************************************************)
DeprecationEntry(min, max, readable) == [min |-> min, max |-> max, readable |-> readable]

\* deprecation entries around the engine's patch version MaxPatch: no bound, one
\* bound, both bounds, with the patch version inside and outside of them
DeprecationEntries ==
    {DeprecationEntry(Undefined, Undefined, "undefined"),
     DeprecationEntry(Undefined, Undefined, "true"),
     DeprecationEntry(Undefined, MaxPatch - 1, "true"),
     DeprecationEntry(MaxPatch + 1, Undefined, "undefined"),
     DeprecationEntry(MaxPatch - 1, Undefined, "true"),
     DeprecationEntry(Undefined, MaxPatch + 1, "undefined"),
     DeprecationEntry(MaxPatch + 1, MaxPatch + 1, "true"),
     DeprecationEntry(MaxPatch - 1, MaxPatch + 1, "false")}

\* data.deprecated: no entry, or one for A.1
DeprecationTables ==
    {<<>>} \cup {[s \in {<<"A", 1>>} |-> e] : e \in DeprecationEntries}

\* the caller's definition objects, with and without their routines
Objects == {Object(k, ok) : k \in {1, 2}, ok \in BOOLEAN}

(***************************************************************************)
(* Registration: the constructor, loadDefaultBundle with each deprecation  *)
(* table, and addDefinition by the caller.                                 *)
(***************************************************************************)
RegistrationBundles ==
    {[protocol |-> l, deprecated |-> t] :
        l \in {<<>>, <<File(TRUE, "A", 1, NoPlatform, TRUE)>>},
        t \in DeprecationTables}

Init == constructor(MaxPatch, 1, "pc", 0, 0)

Next ==
    \/ \E data \in RegistrationBundles : LoadDefaultBundle(data)
    \/ \E version \in Versions, definition \in Objects, overwrite \in BOOLEAN :
           AddDefinition("A", version, definition, overwrite)

Spec == Init /\ [][Next]_vars

(***************************************************************************)
(* Resolution: a registry built by loadDefaultBundle and addDefinition,    *)
(* and resolveIdentifier with every kind of identifier and version.        *)
(***************************************************************************)
ResolveBundles ==
    {[protocol |-> l, deprecated |-> <<>>] :
        l \in {<<>>, <<File(TRUE, "A", MaxVersion, "pc", TRUE)>>,
               <<File(TRUE, "B", 1, NoPlatform, TRUE)>>}}

\* names the protocol map knows and does not know, opcodes likewise, and a
\* value that is neither a string nor a number
Identifiers ==
    {[type |-> "string", value |-> n] : n \in Names}
    \cup {[type |-> "number", value |-> c] : c \in {1, 2}}
    \cup {[type |-> "undefined", value |-> 0]}

RequestedVersions == {Star} \cup 0..(MaxVersion + 1)

NextResolve ==
    \/ \E data \in ResolveBundles : LoadDefaultBundle(data)
    \/ \E name \in Names, version \in Versions :
           AddDefinition(name, version, Object(1, TRUE), FALSE)
    \/ \E identifier \in Identifiers, definitionVersion \in RequestedVersions :
           ResolveIdentifier(identifier, definitionVersion, FALSE)

SpecResolve == Init /\ [][NextResolve]_vars

(***************************************************************************)
(* Loading: bundles and custom directories of up to MaxFiles files.        *)
(***************************************************************************)
\* the files a bundle or a directory may hold: A.1, the latest A, A.1.pc, an
\* A.1 that does not compile, A.1.console and a file whose name does not parse
FilePool ==
    {File(TRUE, "A", v, NoPlatform, TRUE) : v \in {1, MaxVersion}}
    \cup {File(TRUE, "A", 1, "pc", TRUE), File(TRUE, "A", 1, NoPlatform, FALSE),
          File(TRUE, "A", 1, "console", TRUE),
          File(FALSE, "", Undefined, NoPlatform, TRUE)}

\* a filename occurs once in a listing
filename(file) == <<file.valid, file.name, file.version, file.platform>>

RECURSIVE FileLists(_)
FileLists(k) ==
    IF k = 0 THEN {<<>>}
    ELSE LET shorter == FileLists(k - 1)
         IN  shorter \cup
             {Append(l, f) : l \in {x \in shorter : Len(x) = k - 1}, f \in FilePool}

distinctNames(l) ==
    \A i, j \in 1..Len(l) : i # j => filename(l[i]) # filename(l[j])

Listings == {l \in FileLists(MaxFiles) : distinctNames(l)}

LoadBundles == {[protocol |-> l, deprecated |-> <<>>] : l \in Listings}

NextLoad ==
    \/ \E data \in LoadBundles : LoadDefaultBundle(data)
    \/ \E defFiles \in Listings : LoadCustomDefinitions(defFiles)
    \/ \E l \in FileLists(1), defFiles \in FileLists(1) :
           Load([protocol |-> l, deprecated |-> <<>>], defFiles)
    \/ \E overwrite \in BOOLEAN : AddDefinition("A", 1, Object(1, TRUE), overwrite)

SpecLoad == Init /\ [][NextLoad]_vars

(***************************************************************************)
(* Stale custom definitions: bundles of up to MaxFiles platform-agnostic   *)
(* files of every version, in every order, and custom directories of the   *)
(* same files.                                                             *)
(***************************************************************************)
VersionFiles ==
    {File(TRUE, "A", v, NoPlatform, TRUE) : v \in Versions}
    \cup {File(TRUE, "B", 1, NoPlatform, TRUE)}

RECURSIVE VersionLists(_)
VersionLists(k) ==
    IF k = 0 THEN {<<>>}
    ELSE LET shorter == VersionLists(k - 1)
         IN  shorter \cup
             {Append(l, f) : l \in {x \in shorter : Len(x) = k - 1}, f \in VersionFiles}

VersionListings == {l \in VersionLists(MaxFiles) : distinctNames(l)}

NextStale ==
    \/ \E l \in VersionListings :
           LoadDefaultBundle([protocol |-> l, deprecated |-> <<>>])
    \/ \E defFiles \in VersionListings : LoadCustomDefinitions(defFiles)

SpecStale == Init /\ [][NextStale]_vars

(***************************************************************************)
(* The codec: a loaded registry, a resolved identifier the caller keeps,   *)
(* and write, parse and clone with it.                                     *)
(***************************************************************************)
\* A.1 with no deprecation entry, with one that leaves it readable, and with
\* one that leaves it neither readable nor writeable
CodecBundles ==
    {[protocol |-> <<File(TRUE, "A", 1, NoPlatform, TRUE)>>, deprecated |-> t] :
        t \in {<<>>,
               [s \in {<<"A", 1>>} |-> DeprecationEntry(Undefined, MaxPatch - 1, "true")],
               [s \in {<<"A", 1>>} |-> DeprecationEntry(Undefined, Undefined, "undefined")]}}

\* data to write: a payload of 1 byte, and the two longest ones the write
\* buffer holds behind the header
Payloads ==
    {<<Run(1, 7)>>, <<Run(ScratchSize - HeaderSize - 1, 7)>>,
     <<Run(ScratchSize - HeaderSize, 9)>>}

\* a buffer received from elsewhere
Received == {OwnBuffer(<<Run(8, 85)>>)}

InitCodec ==
    \E code \in Opcodes, readGarbage \in Garbage, writeGarbage \in Garbage :
        constructor(MaxPatch, code, "pc", readGarbage, writeGarbage)

\* parse of the i-th Buffer the caller kept
ParseKept(i) ==
    /\ i \in DOMAIN handles.buffers
    /\ Parse(handles.buffers[i].buffer)

NextCodec ==
    \/ \E data \in CodecBundles : LoadDefaultBundle(data)
    \/ \E identifier \in {[type |-> "string", value |-> "A"]} \cup
                         {[type |-> "number", value |-> c] : c \in Opcodes} :
           ResolveIdentifier(identifier, Star, TRUE)
    \/ \E data \in Payloads, garbage \in Garbage, kept \in BOOLEAN :
           Write(data, garbage, kept)
    \/ \E buffer \in Received : Parse(buffer)
    \/ \E i \in 1..MaxKept : ParseKept(i)
    \/ Clone(<<Run(1, 7)>>)

SpecCodec == InitCodec /\ [][NextCodec]_vars

(***************************************************************************)
(* What the claims speak of.                                               *)
(***************************************************************************)
isRegistered(name, version) ==
    name \in DOMAIN messages /\ version \in DOMAIN messages[name]

\* the version keys the registry holds for a name
versionsOf(name) == IF name \in DOMAIN messages THEN DOMAIN messages[name] ELSE {}

hasEntry(name, version) ==
    deprecationData.defined /\ <<name, version>> \in DOMAIN deprecationData.of

\* min <= major <= max, a missing min counting as minus infinity and a missing
\* max as plus infinity
withinBounds(data, major) ==
    /\ (data.min = Undefined \/ data.min <= major)
    /\ (data.max = Undefined \/ major <= data.max)

\* below min or above max
outsideBounds(data, major) ==
    \/ (data.min # Undefined /\ major < data.min)
    \/ (data.max # Undefined /\ major > data.max)

isMapped(identifier) ==
    \/ identifier.type = "string" /\ identifier.value \in DOMAIN protocolMap.name
    \/ identifier.type = "number" /\ identifier.value \in DOMAIN protocolMap.code

nameOf(identifier) ==
    IF identifier.type = "string" THEN identifier.value
    ELSE protocolMap.code[identifier.value]

isMaximum(v, S) == v \in S /\ \A w \in S : w <= v

resolved == last.op = "resolveIdentifier" /\ isMapped(last.identifier)

\* addDefinition was called for a slot that held a definition
secondCall ==
    /\ last.op = "addDefinition"
    /\ last.before # NoDefinition
    /\ isRegistered(last.name, last.version)

wrote == last.op = "write" /\ last.status = "ok"

\* the Buffer returned has last.length bytes and the header of length and code
headerHolds ==
    /\ byteLength(contents(last.result, writeBuffer)) = last.length
    /\ getUint16(contents(last.result, writeBuffer), 0) = last.length
    /\ getUint16(contents(last.result, writeBuffer), 2) = last.resolved.code

\* the versions of the entries the last bundle had for a name
bundleVersions(name) ==
    {slot[2] : slot \in {e \in generation.bundle.entries : e[1] = name}}

isMinimum(v, S) == v \in S /\ \A w \in S : v <= w

\* version is not 0, the bundle has the name, and version is below its least version
predatesBundle(name, version) ==
    /\ version # 0
    /\ bundleVersions(name) # {}
    /\ \A w \in bundleVersions(name) : version < w

(***************************************************************************)
(* C1: for every (name, version) for which the loaders handed addDefinition *)
(* both a platform-agnostic definition and one tagged with the engine's     *)
(* platform since the registry was last cleared, both compiling, the        *)
(* registry holds the platform-tagged definition, whatever the order of the *)
(* two and whether they came from the bundle or the custom directory (a     *)
(* slot the caller has written to itself since is the caller's).            *)
(***************************************************************************)
C1_PlatformTaggedWins ==
    \A slot \in generation.tagged \cap generation.agnostic :
        /\ isRegistered(slot[1], slot[2])
        /\ \/ messages[slot[1]][slot[2]].def.origin = "caller"
           \/ messages[slot[1]][slot[2]].def.platform = platform

\* load() of a bundle with the agnostic A.1 and a directory with A.1.pc
C1_Witness ==
    /\ last.op = "load"
    /\ <<"A", 1>> \in generation.tagged \cap generation.agnostic
    /\ isRegistered("A", 1)
    /\ messages["A"][1].def.origin = "custom"
    /\ messages["A"][1].def.platform = platform

(***************************************************************************)
(* C2 as stated: when addDefinition is called for a (name, version) that   *)
(* already holds a definition, with overwrite = false the registry keeps   *)
(* the first definition (same object, same flags), and with overwrite =    *)
(* true it always holds the second one.                                    *)
(***************************************************************************)
C2_Original ==
    secondCall =>
        IF last.overwrite
        THEN messages[last.name][last.version].def = last.definition.id
        ELSE messages[last.name][last.version] = last.before

(***************************************************************************)
(* C2 as amended: with overwrite = false the registry keeps the first      *)
(* definition (same object, same flags); with overwrite = true it holds    *)
(* the second one when the second has its routines or compiles, and keeps  *)
(* the first one untouched when compiling the second fails.                *)
(***************************************************************************)
C2_Amended ==
    secondCall =>
        IF last.overwrite /\ last.definition.ok
        THEN messages[last.name][last.version].def = last.definition.id
        ELSE messages[last.name][last.version] = last.before

\* a second, different object that compiles, offered without overwrite
C2_Witness ==
    /\ secondCall
    /\ ~last.overwrite
    /\ last.definition.ok
    /\ last.before.def # last.definition.id
    /\ messages[last.name][last.version] = last.before

(***************************************************************************)
(* C3: resolveIdentifier of a mapped identifier with the '*' version, for  *)
(* a name the registry holds versions of, returns the greatest version key *)
(* the registry holds for the name at the time of the call as version and  *)
(* as latest_version, and the definition stored at that key.               *)
(***************************************************************************)
C3_LatestIsMaximum ==
    (/\ resolved
     /\ last.definitionVersion = Star
     /\ versionsOf(nameOf(last.identifier)) # {})
    => /\ last.result.status = "ok"
       /\ isMaximum(last.result.version, versionsOf(nameOf(last.identifier)))
       /\ last.result.latest_version = last.result.version
       /\ last.result.definition
              = messages[nameOf(last.identifier)][last.result.version]

\* the latest of several versions, version 0 among them
C3_Witness ==
    /\ resolved
    /\ last.definitionVersion = Star
    /\ Cardinality(versionsOf(nameOf(last.identifier))) >= 2
    /\ 0 \in versionsOf(nameOf(last.identifier))
    /\ last.result.status = "ok"
    /\ last.result.version > 0

(***************************************************************************)
(* C4: for a mapped name with at least one registered version,             *)
(* resolveIdentifier with an exact version v >= 0 that is not registered   *)
(* and is below the latest version fails with the Outdated error.          *)
(***************************************************************************)
C4_BelowLatestIsOutdated ==
    (/\ resolved
     /\ last.definitionVersion >= 0
     /\ last.definitionVersion \notin versionsOf(nameOf(last.identifier))
     /\ \E w \in versionsOf(nameOf(last.identifier)) : last.definitionVersion < w)
    => last.result.status = "Outdated"

(***************************************************************************)
(* C5: resolveIdentifier of a mapped identifier fails with NotFound, not   *)
(* Outdated, when the registry holds no version of the name, or when the   *)
(* exact version asked for is not registered and not below the latest one. *)
(***************************************************************************)
C5_OtherwiseNotFound ==
    (/\ resolved
     /\ \/ versionsOf(nameOf(last.identifier)) = {}
        \/ /\ last.definitionVersion >= 0
           /\ last.definitionVersion \notin versionsOf(nameOf(last.identifier))
           /\ \A w \in versionsOf(nameOf(last.identifier)) :
                  ~(last.definitionVersion < w))
    => last.result.status = "NotFound"

\* a version above every registered one
C5_Witness ==
    /\ resolved
    /\ versionsOf(nameOf(last.identifier)) # {}
    /\ last.definitionVersion >= 0
    /\ \A w \in versionsOf(nameOf(last.identifier)) : w < last.definitionVersion
    /\ last.result.status = "NotFound"

(***************************************************************************)
(* C6: when addDefinition registers a definition at (name, version) and    *)
(* there is no deprecation entry for it, or the engine's majorPatchVersion *)
(* lies within the entry's bounds (a missing bound being infinite), the    *)
(* registered definition is readable and writeable.                        *)
(***************************************************************************)
C6_WithinBoundsUsable ==
    (/\ last.op = "addDefinition"
     /\ last.stored
     /\ \/ ~hasEntry(last.name, last.version)
        \/ withinBounds(deprecationData.of[<<last.name, last.version>>],
                        majorPatchVersion))
    => /\ messages[last.name][last.version].readable
       /\ messages[last.name][last.version].writeable

(***************************************************************************)
(* C7: when addDefinition registers a definition at (name, version) whose  *)
(* deprecation entry has the engine's majorPatchVersion below its min or   *)
(* above its max, the registered definition is not writeable and is        *)
(* readable exactly when the entry's readable flag is set.                 *)
(***************************************************************************)
C7_OutsideBoundsDeprecated ==
    (/\ last.op = "addDefinition"
     /\ last.stored
     /\ hasEntry(last.name, last.version)
     /\ outsideBounds(deprecationData.of[<<last.name, last.version>>],
                      majorPatchVersion))
    => /\ ~messages[last.name][last.version].writeable
       /\ messages[last.name][last.version].readable
              = (deprecationData.of[<<last.name, last.version>>].readable = "true")

(***************************************************************************)
(* C8 as stated: when the writer returned a length in 4..65536, the Buffer *)
(* write returns has exactly length bytes, its bytes [0,2) read as a       *)
(* little-endian unsigned 16-bit integer are length, and its bytes [2,4)   *)
(* read likewise are the resolved code.                                    *)
(***************************************************************************)
C8_Original ==
    (wrote /\ last.length \in HeaderSize..ScratchSize) => headerHolds

(***************************************************************************)
(* C8 as amended: the same for a length in 4..65535; a length of 65536     *)
(* does not fit the 16-bit length field.                                   *)
(***************************************************************************)
C8_Amended ==
    (wrote /\ last.length \in HeaderSize..(ScratchSize - 1)) => headerHolds

\* the longest message whose length fits, with an opcode of two different bytes
C8_Witness ==
    /\ wrote
    /\ last.length = ScratchSize - 1
    /\ last.resolved.code > 255
    /\ headerHolds

(***************************************************************************)
(* C9: the contents of every Buffer write returned stay what they were     *)
(* when it was returned, whatever write and parse calls follow.            *)
(***************************************************************************)
C9_ReturnedBufferDetached ==
    \A i \in DOMAIN handles.buffers :
        contents(handles.buffers[i].buffer, writeBuffer) = handles.buffers[i].returned

\* a later write has put other bytes where the kept Buffer's bytes came from
C9_Witness ==
    /\ wrote
    /\ \E i \in DOMAIN handles.buffers :
           /\ handles.buffers[i].buffer # last.result
           /\ take(writeBuffer, handles.buffers[i].buffer.length)
                  # handles.buffers[i].returned
           /\ contents(handles.buffers[i].buffer, writeBuffer) = handles.buffers[i].returned

(***************************************************************************)
(* C10: parse of a Buffer that write returned for data X returns X, also   *)
(* when earlier calls left other bytes in the scratch regions.             *)
(***************************************************************************)
C10_RoundTrip ==
    (last.op = "parse" /\ last.status = "ok")
    => \A i \in DOMAIN handles.buffers :
           handles.buffers[i].buffer = last.buffer
           => last.result = handles.buffers[i].data

\* the read buffer still holds, behind the parsed bytes, bytes of a longer
\* buffer parsed before
C10_Witness ==
    /\ last.op = "parse"
    /\ last.status = "ok"
    /\ \E i \in DOMAIN handles.buffers :
           /\ handles.buffers[i].buffer = last.buffer
           /\ last.result = handles.buffers[i].data
    /\ last.buffer.length < 8
    /\ byteAt(readBuffer, last.buffer.length) = 85

(***************************************************************************)
(* C11: loadCustomDefinitions, called after a bundle was loaded, skips a   *)
(* custom definition (name, version) exactly when version is not 0, the    *)
(* bundle has an entry for the name and version is below the least version *)
(* of the bundle's entries for the name; every other definition is handed  *)
(* to addDefinition.                                                       *)
(***************************************************************************)
C11_SkipsExactlyTheStale ==
    (/\ last.op = "loadCustomDefinitions"
     /\ generation.bundle.complete)
    => /\ ~last.threw
       /\ \A slot \in last.listed :
              /\ slot \in last.skipped <=> predatesBundle(slot[1], slot[2])
              /\ slot \notin last.skipped => slot \in last.offered

(***************************************************************************)
(* C12: a file whose name does not parse, a definition that does not       *)
(* compile or a stale custom version never aborts loadDefaultBundle, load  *)
(* or (once a bundle was loaded) loadCustomDefinitions: the call returns,  *)
(* and the registry holds a definition at the (name, version) of every     *)
(* file of the engine's platform that parses and compiles.                 *)
(***************************************************************************)
C12_FailuresNeverAbort ==
    /\ last.op \in {"loadDefaultBundle", "load"} => ~last.threw
    /\ (last.op = "loadCustomDefinitions" /\ generation.bundle.complete) => ~last.threw
    /\ (last.op = "loadDefaultBundle" /\ ~last.threw)
       => \A i \in DOMAIN last.protocol :
              (/\ last.protocol[i].valid
               /\ last.protocol[i].ok
               /\ platformMatches(parseDefinitionFilename(last.protocol[i]), platform))
              => isRegistered(last.protocol[i].name, last.protocol[i].version)
    /\ (last.op \in {"load", "loadCustomDefinitions"} /\ generation.bundle.complete)
       => \A slot \in generation.tagged \cup generation.agnostic :
              isRegistered(slot[1], slot[2])

(***************************************************************************)
(* C13: a parse with a resolved definition that is not readable and a      *)
(* write with one that is not writeable fail with the Deprecated error and *)
(* leave the read buffer and the write buffer as they were.                *)
(***************************************************************************)
C13_DeprecatedRefused ==
    [][/\ (last'.op = "parse" /\ ~last'.resolved.definition.readable)
          => (last'.status = "Deprecated" /\ UNCHANGED codecVars)
       /\ (last'.op = "write" /\ ~last'.resolved.definition.writeable)
          => (last'.status = "Deprecated" /\ UNCHANGED codecVars)]_vars

\* a parse refused when the read buffer did not yet hold the buffer's bytes
C13_Witness ==
    /\ last.op = "parse"
    /\ ~last.resolved.definition.readable
    /\ last.status = "Deprecated"
    /\ take(readBuffer, last.buffer.length) # contents(last.buffer, writeBuffer)

(***************************************************************************)
(* C14: resolveIdentifier of a string the protocol map has no code for, or *)
(* of a number it has no name for, fails with NotFound, also when the      *)
(* registry holds definitions under that name; an identifier that is       *)
(* neither a string nor a number fails with a TypeError; and a successful  *)
(* call returns a name and a code the protocol map relates.                *)
(***************************************************************************)
C14_ClassifiedBeforeLookup ==
    last.op = "resolveIdentifier"
    => /\ (last.identifier.type \in {"string", "number"} /\ ~isMapped(last.identifier))
          => last.result.status = "NotFound"
       /\ last.identifier.type \notin {"string", "number"}
          => last.result.status = "TypeError"
       /\ last.result.status = "ok"
          => /\ last.result.name \in DOMAIN protocolMap.name
             /\ protocolMap.name[last.result.name] = last.result.code
             /\ last.result.code \in DOMAIN protocolMap.code
             /\ protocolMap.code[last.result.code] = last.result.name
             /\ last.identifier.type = "string"
                => last.result.name = last.identifier.value
             /\ last.identifier.type = "number"
                => last.result.code = last.identifier.value

\* a name the registry holds a definition for, but the protocol map does not know
C14_Witness ==
    /\ last.op = "resolveIdentifier"
    /\ last.identifier.type = "string"
    /\ ~isMapped(last.identifier)
    /\ versionsOf(last.identifier.value) # {}
    /\ last.definitionVersion \in versionsOf(last.identifier.value) \cup {Star}
    /\ last.result.status = "NotFound"

(***************************************************************************)
(* C15: resolveIdentifier of a mapped identifier with an exact version v   *)
(* at which the registry holds a definition succeeds, also when v is below *)
(* the latest version: it returns version v, the greatest registered       *)
(* version of the name as latest_version and the definition stored at v;   *)
(* and it fails with Outdated only when nothing is stored at v.            *)
(***************************************************************************)
C15_ExactVersionResolves ==
    resolved
    => /\ (/\ last.definitionVersion # Star
           /\ last.definitionVersion \in versionsOf(nameOf(last.identifier)))
          => /\ last.result.status = "ok"
             /\ last.result.version = last.definitionVersion
             /\ isMaximum(last.result.latest_version, versionsOf(nameOf(last.identifier)))
             /\ last.result.definition
                    = messages[nameOf(last.identifier)][last.definitionVersion]
       /\ last.result.status = "Outdated"
          => last.definitionVersion \notin versionsOf(nameOf(last.identifier))

\* a registered version below the latest one
C15_Witness ==
    /\ resolved
    /\ last.definitionVersion # Star
    /\ last.result.status = "ok"
    /\ last.result.version = last.definitionVersion
    /\ last.result.version < last.result.latest_version

(***************************************************************************)
(* C16: after loadDefaultBundle, lowestDefaultDefVersions of every name of *)
(* the bundle is the least version among the bundle's entries for the      *)
(* name, version 0 included, whatever the order of the entries.            *)
(***************************************************************************)
C16_LowestIsMinimum ==
    (last.op = "loadDefaultBundle" /\ ~last.threw)
    => /\ lowestDefaultDefVersions.defined
       /\ \A slot \in generation.bundle.entries :
              isMinimum(lowestDefaultDefVersions.of[slot[1]],
                        bundleVersions(slot[1]))

(***************************************************************************)
(* C17: after a loadDefaultBundle call that returned, whatever the         *)
(* registry held before, every (name, version) key of the registry is in   *)
(* defaultDefinitions of the bundle, every name has a version, and every   *)
(* definition stored is the one of an entry of the bundle.                 *)
(***************************************************************************)
C17_DestructiveRebuild ==
    (last.op = "loadDefaultBundle" /\ ~last.threw)
    => \A n \in DOMAIN messages :
           /\ DOMAIN messages[n] # {}
           /\ \A v \in DOMAIN messages[n] :
                  /\ defaultDefinitions.defined
                  /\ <<n, v>> \in defaultDefinitions.of
                  /\ \E i \in DOMAIN last.protocol :
                         /\ parseDefinitionFilename(last.protocol[i]).name = n
                         /\ parseDefinitionFilename(last.protocol[i]).version = v
                         /\ messages[n][v].def = Definition("bundle", last.protocol[i]).id

\* the registry held custom and caller's definitions before a bundle was loaded
C17_Witness ==
    /\ last.op = "loadDefaultBundle"
    /\ ~last.threw
    /\ {"custom", "caller"} \subseteq last.held
    /\ messages # <<>>

(***************************************************************************)
(* C18: a resolveIdentifier, parse, write or clone call, whether it        *)
(* succeeds or fails, leaves the registry (its keys, the definitions and   *)
(* their flags), the deprecation table, defaultDefinitions,                *)
(* lowestDefaultDefVersions and loaded as they were.                       *)
(***************************************************************************)
C18_CallsLeaveRegistry ==
    [][last'.op \in {"resolveIdentifier", "parse", "write", "clone"}
       => UNCHANGED registryVars]_vars

\* a clone with a resolved identifier whose definition the registry still holds
C18_Witness ==
    /\ last.op = "clone"
    /\ isRegistered(last.resolved.name, last.resolved.version)
    /\ messages[last.resolved.name][last.resolved.version] = last.resolved.definition
    /\ loaded

(***************************************************************************)
(* C19: every name that is a key of the registry has a version map that is *)
(* not empty, so that whenever resolveIdentifier finds a version map for   *)
(* the name its latest_version is a registered version of the name.        *)
(***************************************************************************)
C19_NoEmptyVersionMap ==
    /\ \A n \in DOMAIN messages : DOMAIN messages[n] # {}
    /\ (resolved /\ nameOf(last.identifier) \in DOMAIN messages)
       => last.result.latest_version \in DOMAIN messages[nameOf(last.identifier)]

(***************************************************************************)
(* C20: in every state after construction, also before any bundle was      *)
(* loaded, addDefinition with a definition that compiles returns without   *)
(* raising and leaves a definition registered at (name, version), and      *)
(* loadCustomDefinitions returns without raising and hands every listed    *)
(* definition it does not skip to addDefinition.                           *)
(***************************************************************************)
C20_UsableBeforeLoad ==
    /\ (last.op = "addDefinition" /\ last.definition.ok)
       => (~last.threw /\ isRegistered(last.name, last.version))
    /\ last.op = "loadCustomDefinitions"
       => (~last.threw /\ (last.listed \ last.skipped) \subseteq last.offered)

====
